---- MODULE Spec2Model ----
(***************************************************************************)
(* Model of ytmdl/setupConfig.py: the configuration-resolution engine.     *)
(*                                                                         *)
(* Python strings are sequences of one-character strings, so that find,    *)
(* slicing, replace, split and the substring test are computed the way the *)
(* code computes them.  The filesystem is a record: the set of existing    *)
(* directories and a function from the paths of the regular files to their *)
(* contents; the os functions look paths up in it and raise as the system  *)
(* calls do.  Python values whose type varies (str, list, bool, None) are  *)
(* tagged records.                                                         *)
(***************************************************************************)
EXTENDS Integers, Sequences, FiniteSets, TLC

VARIABLES fs, last

vars == <<fs, last>>

\* Largest number of lines of a config file the user has written.
MaxLines == 2

-----------------------------------------------------------------------------
(* Python values *)

None == [t |-> "None", v |-> <<>>]
Str(s) == [t |-> "str", v |-> s]
List(l) == [t |-> "list", v |-> l]
Bool(b) == [t |-> "bool", v |-> b]

\* Python truthiness of a value, as in "if checkValidity(...)" and "if not checkConfig()".
truthy(x) ==
    CASE x.t = "bool" -> x.v
      [] x.t = "None" -> FALSE
      [] OTHER -> x.v # <<>>

-----------------------------------------------------------------------------
(* Python string operations *)

NL == "\n"
CR == "\r"

Min(S) == CHOOSE i \in S : \A j \in S : i <= j

\* s.find(c, i) for a one-character c, 1-based; 0 where Python gives -1.
find_from(s, c, i) ==
    IF \E j \in i..Len(s) : s[j] = c
    THEN CHOOSE j \in i..Len(s) : s[j] = c /\ \A k \in i..(j - 1) : s[k] # c
    ELSE 0

\* s.find(c)
find(s, c) == find_from(s, c, 1)

\* s[i:].startswith(p), i 1-based.
startswith(s, p, i) ==
    /\ i + Len(p) - 1 <= Len(s)
    /\ \A j \in 1..Len(p) : s[i + j - 1] = p[j]

\* "sub in s"
contains(sub, s) == \E i \in 1..(Len(s) - Len(sub) + 1) : startswith(s, sub, i)

\* s.replace(old, '') for a one-character old.
replace(s, old) == SelectSeq(s, LAMBDA c : c # old)

\* s.split(sep) for a one-character sep.
RECURSIVE split(_, _)
split(s, sep) ==
    LET i == find(s, sep)
    IN  IF i = 0 THEN <<s>>
        ELSE <<SubSeq(s, 1, i - 1)>> \o split(SubSeq(s, i + 1, Len(s)), sep)

\* os.path.join(a, b)
join(a, b) ==
    IF b # <<>> /\ Head(b) = "/" THEN b
    ELSE IF a = <<>> \/ a[Len(a)] = "/" THEN a \o b
    ELSE a \o <<"/">> \o b

-----------------------------------------------------------------------------
(* The process environment: $HOME, xdg_config_home, the working directory *)

HOME_DIR == <<"/","h">>
xdg_config_home == <<"/","h","/",".","c","o","n","f","i","g">>
getcwd == <<"/","w">>

\* os.path.expanduser(p): a leading ~ becomes the home directory.
expanduser(p) ==
    IF p # <<>> /\ Head(p) = "~" /\ (Len(p) = 1 \/ p[2] = "/")
    THEN HOME_DIR \o Tail(p)
    ELSE p

VarChars ==
    {"A","B","C","D","E","F","G","H","I","J","K","L","M","N","O","P","Q","R","S","T",
     "U","V","W","X","Y","Z","a","b","c","d","e","f","g","h","i","j","k","l","m","n",
     "o","p","q","r","s","t","u","v","w","x","y","z","0","1","2","3","4","5","6","7",
     "8","9","_"}

\* os.path.expandvars(p) in an environment that defines HOME only: $HOME and
\* ${HOME} are replaced, a reference to any other variable is left as it is.
\* name_end is where the variable name that starts at position i ends.
name_end(p, i) ==
    IF \E j \in i..Len(p) : p[j] \notin VarChars
    THEN CHOOSE j \in i..Len(p) :
            p[j] \notin VarChars /\ \A k \in i..(j - 1) : p[k] \in VarChars
    ELSE Len(p) + 1

\* The reference that starts at the '$' at position i: its name and the
\* position after it.  '$' followed by '{' is a reference up to the first
\* '}', the name being what the braces hold; '$' followed by anything else is
\* a reference to the longest run of name characters.  An empty run, or an
\* unclosed brace, is no reference: the '$' stays (end = i + 1).
reference(p, i) ==
    IF i < Len(p) /\ p[i + 1] = "{"
    THEN IF find_from(p, "}", i + 2) = 0
         THEN [name |-> <<>>, end |-> i + 1, found |-> FALSE]
         ELSE [name |-> SubSeq(p, i + 2, find_from(p, "}", i + 2) - 1),
               end |-> find_from(p, "}", i + 2) + 1, found |-> TRUE]
    ELSE [name |-> SubSeq(p, i + 1, name_end(p, i + 1) - 1),
          end |-> name_end(p, i + 1),
          found |-> name_end(p, i + 1) > i + 1]

\* expandvars(p) where the first '$' of p is at position i (0: p has none).
RECURSIVE expandvars(_)
expand_at(p, i) ==
    IF i = 0 THEN p
    ELSE SubSeq(p, 1, i - 1)
         \o (IF reference(p, i).found /\ reference(p, i).name = <<"H","O","M","E">>
             THEN HOME_DIR
             ELSE SubSeq(p, i, reference(p, i).end - 1))
         \o expandvars(SubSeq(p, reference(p, i).end, Len(p)))

expandvars(p) == expand_at(p, find(p, "$"))

-----------------------------------------------------------------------------
(* The filesystem.  dirs and the domain of files hold absolute paths in one *)
(* form: components joined by single slashes.  The root directory "/" is   *)
(* always there and is not listed.                                         *)
(* The operations take paths as the program writes them (relative, with a  *)
(* trailing slash, with "." or ".." in them) and look them up.             *)

Root == <<"/">>

\* s.rfind(c) for a one-character c, 1-based; 0 where Python gives -1.
rfind(s, c) ==
    IF \E j \in 1..Len(s) : s[j] = c
    THEN CHOOSE j \in 1..Len(s) : s[j] = c /\ \A k \in (j + 1)..Len(s) : s[k] # c
    ELSE 0

\* s.rstrip('/')
rstrip(s) ==
    IF \E j \in 1..Len(s) : s[j] # "/"
    THEN SubSeq(s, 1, CHOOSE j \in 1..Len(s) :
                         s[j] # "/" /\ \A k \in (j + 1)..Len(s) : s[k] = "/")
    ELSE <<>>

\* os.path.split(p), with the path cut after position i, that of its last '/'.
path_split_at(p, i) ==
    [head |-> IF rstrip(SubSeq(p, 1, i)) = <<>>
              THEN SubSeq(p, 1, i)
              ELSE rstrip(SubSeq(p, 1, i)),
     tail |-> SubSeq(p, i + 1, Len(p))]

path_split(p) == path_split_at(p, rfind(p, "/"))

\* The directory above directory d.
parent(d) ==
    IF rfind(d, "/") <= 1 THEN Root ELSE SubSeq(d, 1, rfind(d, "/") - 1)

\* Where one component of a path leads from directory cur.
step(cur, name) ==
    IF name \in {<<>>, <<".">>} THEN cur
    ELSE IF name = <<".", ".">> THEN parent(cur)
    ELSE join(cur, name)

\* The directories of f; the root directory is always there.
dirs_of(f) == f.dirs \cup {Root}

\* The path looked up component by component from cur: every component is
\* looked up in a directory; what the last one names need not exist.
RECURSIVE walk(_, _, _)
walk(f, cur, names) ==
    IF names = <<>> THEN [path |-> cur, err |-> ""]
    ELSE IF cur \in dirs_of(f) THEN walk(f, step(cur, Head(names)), Tail(names))
    ELSE IF cur \in DOMAIN f.files THEN [path |-> <<>>, err |-> "NotADirectoryError"]
    ELSE [path |-> <<>>, err |-> "FileNotFoundError"]

\* The path is absolute and every component of it is a name: it has no
\* empty component (a doubled or trailing slash), no "." and no "..".
plain_path(p) ==
    /\ p[1] = "/"
    /\ p[Len(p)] # "/"
    /\ \A i \in 1..(Len(p) - 1) :
          p[i] = "/" => /\ p[i + 1] # "/"
                        /\ p[i + 1] = "." =>
                              /\ i + 1 < Len(p)
                              /\ p[i + 2] # "/"
                              /\ p[i + 2] = "." => (i + 2 < Len(p) /\ p[i + 3] # "/")

\* A plain path names itself when the paths above it are directories; gaps
\* holds the slashes of p before which the path is not a directory, and the
\* first of them decides the error.
plain_lookup(f, p, gaps) ==
    IF gaps = {} THEN [path |-> p, err |-> ""]
    ELSE IF SubSeq(p, 1, Min(gaps) - 1) \in DOMAIN f.files
    THEN [path |-> <<>>, err |-> "NotADirectoryError"]
    ELSE [path |-> <<>>, err |-> "FileNotFoundError"]

\* What the kernel makes of path p: the entry it names, or the error.
lookup(f, p) ==
    IF p = <<>> THEN [path |-> <<>>, err |-> "FileNotFoundError"]
    ELSE IF plain_path(p)
    THEN plain_lookup(f, p, {i \in 2..Len(p) :
                                p[i] = "/" /\ SubSeq(p, 1, i - 1) \notin f.dirs})
    ELSE IF Head(p) = "/" THEN walk(f, Root, split(p, "/"))
    ELSE walk(f, getcwd, split(p, "/"))

\* The lookup named an entry of the set S.
found_in(at, S) == at.err = "" /\ at.path \in S

isdir(f, p) == found_in(lookup(f, p), dirs_of(f))
isfile(f, p) == found_in(lookup(f, p), DOMAIN f.files)
exists(f, p) == found_in(lookup(f, p), dirs_of(f) \cup DOMAIN f.files)

\* What a file opened with open(p, 'r') gives for the bytes s: text mode reads
\* "\r\n" and a lone "\r" as "\n".
universal_newlines(s) ==
    IF \A i \in 1..Len(s) : s[i] # CR THEN s
    ELSE LET kept == SelectSeq([i \in 1..Len(s) |-> i],
                         LAMBDA i : ~(s[i] = NL /\ i > 1 /\ s[i - 1] = CR))
         IN  [k \in 1..Len(kept) |-> IF s[kept[k]] = CR THEN NL ELSE s[kept[k]]]

\* open(p, 'r').read(), with p looked up as at.
read_at(f, at) ==
    IF at.err # "" THEN [outcome |-> at.err, data |-> <<>>]
    ELSE IF at.path \in dirs_of(f) THEN [outcome |-> "IsADirectoryError", data |-> <<>>]
    ELSE IF at.path \notin DOMAIN f.files
    THEN [outcome |-> "FileNotFoundError", data |-> <<>>]
    ELSE [outcome |-> "returned", data |-> universal_newlines(f.files[at.path])]

read(f, p) == read_at(f, lookup(f, p))

\* The names of the entries of the directory at path d.
entries(f, d) ==
    {SubSeq(x, Len(d) + 1, Len(x)) :
        x \in {y \in f.dirs \cup DOMAIN f.files :
                 /\ Len(y) > Len(d)
                 /\ startswith(y, d, 1)
                 /\ \A i \in (Len(d) + 1)..Len(y) : y[i] # "/"}}

\* os.listdir(p) of a directory p.
listdir(f, p) == entries(f, join(lookup(f, p).path, <<>>))

\* os.mkdir of the entry name in the directory looked up as up.
mkdir_in(f, up, name) ==
    IF up.err # "" THEN [fs |-> f, outcome |-> up.err]
    ELSE IF up.path \in DOMAIN f.files THEN [fs |-> f, outcome |-> "NotADirectoryError"]
    ELSE IF up.path \notin dirs_of(f) THEN [fs |-> f, outcome |-> "FileNotFoundError"]
    ELSE IF \/ name \in {<<".">>, <<".", ".">>}
            \/ join(up.path, name) \in dirs_of(f) \cup DOMAIN f.files
    THEN [fs |-> f, outcome |-> "FileExistsError"]
    ELSE [fs |-> [f EXCEPT !.dirs = @ \cup {join(up.path, name)}],
          outcome |-> "returned"]

\* os.mkdir(p)
mkdir(f, p) ==
    IF p = <<>> THEN [fs |-> f, outcome |-> "FileNotFoundError"]
    ELSE IF rstrip(p) = <<>> THEN [fs |-> f, outcome |-> "FileExistsError"]
    ELSE IF path_split(rstrip(p)).head = <<>>
    THEN mkdir_in(f, [path |-> getcwd, err |-> ""], path_split(rstrip(p)).tail)
    ELSE mkdir_in(f, lookup(f, path_split(rstrip(p)).head), path_split(rstrip(p)).tail)

\* os.makedirs: head and tail of name, split again when the tail is empty.
makedirs_split(name) ==
    IF path_split(name).tail = <<>>
    THEN path_split(path_split(name).head)
    ELSE path_split(name)

\* os.makedirs: the mkdir of name itself, which ended as m; that name is
\* there already is an error unless exist_ok is set and name is a directory.
makedirs_leaf(f, name, exist_ok, m) ==
    IF m.outcome = "returned" THEN m
    ELSE IF ~exist_ok \/ ~isdir(f, name) THEN m
    ELSE [fs |-> f, outcome |-> "returned"]

\* os.makedirs, once the directories above name were made, which ended as up
\* (a FileExistsError from there is passed over).
makedirs_after(up, name, exist_ok) ==
    IF up.outcome \notin {"returned", "FileExistsError"} THEN up
    ELSE IF makedirs_split(name).tail = <<".">>
    THEN [fs |-> up.fs, outcome |-> "returned"]
    ELSE makedirs_leaf(up.fs, name, exist_ok, mkdir(up.fs, name))

\* os.makedirs(name, exist_ok=exist_ok)
RECURSIVE makedirs(_, _, _)
makedirs(f, name, exist_ok) ==
    IF /\ makedirs_split(name).head # <<>>
       /\ makedirs_split(name).tail # <<>>
       /\ ~exists(f, makedirs_split(name).head)
    THEN makedirs_after(makedirs(f, makedirs_split(name).head, exist_ok),
                        name, exist_ok)
    ELSE makedirs_leaf(f, name, exist_ok, mkdir(f, name))

\* os.remove(p), with p looked up as at.
remove_at(f, at) ==
    IF at.err # "" THEN [fs |-> f, outcome |-> at.err]
    ELSE IF at.path \in dirs_of(f) THEN [fs |-> f, outcome |-> "IsADirectoryError"]
    ELSE IF at.path \notin DOMAIN f.files THEN [fs |-> f, outcome |-> "FileNotFoundError"]
    ELSE [fs |-> [f EXCEPT !.files =
                     [x \in (DOMAIN f.files) \ {at.path} |-> f.files[x]]],
          outcome |-> "returned"]

remove(f, p) == remove_at(f, lookup(f, p))

\* The path of the directory a path without trailing slashes names an entry of.
above(q) ==
    IF rfind(q, "/") = 0 THEN <<".">> ELSE SubSeq(q, 1, rfind(q, "/"))

\* What the kernel makes of a path opened with open(p, 'w'): a path that ends
\* in '/' is refused as a directory once the directories above its last name
\* are found, whether or not that name exists.
lookup_w(f, p) ==
    IF p = <<>> \/ p[Len(p)] # "/" \/ rstrip(p) = <<>> THEN lookup(f, p)
    ELSE IF lookup(f, above(rstrip(p))).err # "" THEN lookup(f, above(rstrip(p)))
    ELSE [path |-> <<>>, err |-> "IsADirectoryError"]

\* open(p, 'w').write(data)
write(f, p, data) ==
    LET at == lookup_w(f, p)
    IN  IF at.err # "" THEN [fs |-> f, outcome |-> at.err]
        ELSE IF at.path \in dirs_of(f) THEN [fs |-> f, outcome |-> "IsADirectoryError"]
        ELSE [fs |-> [f EXCEPT !.files =
                         [x \in (DOMAIN f.files) \cup {at.path} |->
                             IF x = at.path THEN data ELSE f.files[x]]],
              outcome |-> "returned"]

-----------------------------------------------------------------------------
(* config_text: the template written by make_config *)

\* Mutant of config_text_quality: the template ships an active QUALITY line.
config_text_quality_active ==
    <<
      "#"," ","T","h","e"," ","Q","U","A","L","I","T","Y"," ","i","s"," ","t","h","e"," ","q","u","a","l","i","t","y"," ","o","f"," ","t","h","e"," ","s","o","n","g"," ","i","n"," ","k","b","p","s","\n",
      "#"," ","B","y"," ","d","e","f","a","u","l","t"," ","i","t"," ","i","s"," ","s","e","t"," ","t","o"," ","3","2","0","k","b","p","s","\n",
      "#"," ","I","n"," ","c","a","s","e"," ","y","o","u"," ","w","a","n","t"," ","t","o"," ","c","h","a","n","g","e"," ","i","t"," ","t","o"," ","s","o","m","e","t","h","i","n","g"," ","e","l","s","e",",","\n",
      "#"," ","U","n","c","o","m","m","e","n","t"," ","t","h","e"," ","f","o","l","l","o","w","i","n","g"," ","l","i","n","e"," ","a","n","d"," ","c","h","a","n","g","e"," ","i","t","\n",
      "#","\n",
      "#"," ","S","u","p","p","o","r","t","e","d"," ","v","a","l","u","e","s"," ","a","r","e"," ","3","2","0"," ","a","n","d"," ","1","9","2","\n",
      "#","\n",
      "Q","U","A","L","I","T","Y"," ","="," ","\"","1","9","2","\"","\n",
      "#","\n",
      "#","*","*","*","*","*","*","*","*","*","*","*","*","*","*","*","*","*","*","*","*","*","*","*","*","*","*","*","*","*","*","*","*","*","*","*","*","*","*","*","*","*","#","\n">>

\* config_text, source lines 9-19
config_text_header ==
    <<
      "#","*","*","*","*","*","*","*","*","*","*","*","*","*","*","*","*","*","*","*","*","*","*","*","*","*","*","*","*","*","*","*","*","*","*","*","*","*","*","*","*","*","#","\n",
      "#","*","-","-","-","-","-","-","-","-","-","-","-","-","-","c","o","n","f","i","g"," ","f","o","r"," ","y","t","m","d","l"," ","-","-","-","-","-","-","-","-","-","-","#","\n",
      "#","\n",
      "#","-","-","-","-","-","-","-","-","-","-","-","-","-","-","-","-","-","-","-","-","-","-","-","-","-","-","-","-","-","-","-","-","-","-","-","-","-","-","-","-","-","#","\n",
      "#","-","-","-","-","-","-","P","L","E","A","S","E"," ","D","O","N","'","T"," ","L","E","A","V","E"," ","A","N","Y"," ","B","L","A","N","K"," ","L","I","N","E","S","-","-","-","#","\n",
      "#","-","-","-","-","-","-","-","-","-","-","-","-","-","-","-","-","-","-","-","-","-","-","-","-","-","-","-","-","-","-","-","-","-","-","-","-","-","-","-","-","-","#","\n",
      "#","\n",
      "#"," ","T","o"," ","c","h","a","n","g","e"," ","d","e","f","a","u","l","t","s"," ","j","u","s","t"," ","r","e","m","o","v","e"," ","t","h","e"," ","h","a","s","h","(","#",")","\n",
      "#"," ","f","r","o","m"," ","t","h","e"," ","b","e","g","i","n","n","i","n","g"," ","o","f"," ","t","h","e"," ","l","i","n","e",".","\n",
      "#","\n",
      "#","*","*","*","*","*","*","*","*","*","*","*","*","*","*","*","*","*","*","*","*","*","*","*","*","*","*","*","*","*","*","*","*","*","*","*","*","*","*","*","*","*","\n">>

\* config_text, source lines 20-27
config_text_song_dir ==
    <<
      "#"," ","T","h","e"," ","S","O","N","G","_","D","I","R"," ","i","s"," ","t","h","e"," ","d","i","r","e","c","t","o","r","y"," ","w","h","e","r","e"," ","a","l","l"," ","t","h","e"," ","s","o","n","g","s"," ","w","i","l","l"," ","b","e"," ","s","a","v","e","d",".","\n",
      "#"," ","I","n"," ","o","r","d","e","r"," ","t","o"," ","c","h","a","n","g","e"," ","i","t",","," ","s","i","m","p","l","y"," ","r","e","m","o","v","e"," ","t","h","e"," ","h","a","s","h"," ","f","r","o","m"," ","b","e","g","i","n","n","i","n","g","\n",
      "#"," ","A","n","d"," ","c","h","a","n","g","e"," ","t","h","e"," ","p","a","t","h"," ","t","o"," ","y","o","u","r"," ","d","e","s","i","r","e","d"," ","o","n","e",".","\n",
      "#"," ","I","n"," ","c","a","s","e"," ","t","h","e"," ","p","a","t","h"," ","h","a","s"," ","s","p","a","c","e","s"," ","i","n"," ","i","n",","," ","i","n","c","l","u","d","e"," ","i","t"," ","i","n"," ","a"," ","\""," ","\"","\n",
      "#"," ","F","o","l","l","o","w","i","n","g"," ","i","s"," ","a"," ","s","i","m","p","l","e"," ","f","o","l","d","e","r"," ","p","a","t","h"," ","e","x","a","m","p","l","e","\n",
      "#","\n",
      "#","S","O","N","G","_","D","I","R"," ","="," ","\"","p","a","t","h","/","t","o","/","y","o","u","r","/","d","e","s","i","r","e","d","/","f","o","l","d","e","r","\"","\n",
      "#","\n">>

\* config_text, source lines 28-43
config_text_advanced ==
    <<
      "#","*","*","*","*","*","*","*","*","*","*","*","*","-","-","-","-","-","-","-","-","A","D","V","A","N","C","E","D","-","-","-","-","-","-","-","*","*","*","*","*","*","*","*","*","\n",
      "#"," ","I","f"," ","y","o","u"," ","w","a","n","t"," ","t","o"," ","s","a","v","e"," ","t","h","e"," ","s","o","n","g"," ","i","n"," ","c","u","s","t","o","m"," ","f","o","l","d","e","r","s"," ","t","h","a","n"," ","t","h","o","s","e"," ","c","a","n"," ","b","e","\n",
      "#"," ","a","d","d","e","d"," ","t","o"," ","t","h","e"," ","n","a","m","e"," ","l","i","k","e"," ","t","h","e"," ","f","o","l","l","o","w","i","n","g"," ","e","x","a","m","p","l","e",".","\n",
      "#"," ","T","h","e"," ","p","o","s","s","i","b","l","e"," ","v","a","l","u","e","s"," ","a","r","e"," ","f","o","l","l","o","w","i","n","g","\n",
      "#","\n",
      "#"," ","A","r","t","i","s","t"," ","-","-",">"," ","S","o","n","g"," ","A","r","t","i","s","t","\n",
      "#"," ","A","l","b","u","m"," "," ","-","-",">"," ","S","o","n","g"," ","A","l","b","u","m"," ","N","a","m","e","\n",
      "#"," ","T","i","t","l","e"," "," ","-","-",">"," ","S","o","n","g"," ","N","a","m","e","\n",
      "#"," ","G","e","n","r","e"," "," ","-","-",">"," ","S","o","n","g"," ","G","e","n","r","e","\n",
      "#"," ","T","r","a","c","k","N","u","m","b","e","r"," ","-","-",">"," ","S","o","n","g"," ","N","u","m","b","e","r"," ","i","n"," ","t","h","e"," ","a","l","b","u","m","\n",
      "#"," ","R","e","l","e","a","s","e","D","a","t","e"," ","-","-",">"," ","S","o","n","g"," ","R","e","l","e","a","s","e"," ","d","a","t","e","\n",
      "#","\n",
      "#"," ","F","o","l","l","o","w","i","n","g"," ","i","s"," ","a","n"," ","e","x","a","m","p","l","e"," ","o","f"," ","t","h","e"," ","f","o","r","m","a","t","\n",
      "#","S","O","N","G","_","D","I","R"," ","="," ","\"","/","h","o","m","e","/","u","s","e","r","/","M","u","s","i","c","$","A","r","t","i","s","t","-",">","A","l","b","u","m","-",">","T","i","t","l","e","\"","\n",
      "#","\n",
      "#","*","*","*","*","*","*","*","*","*","*","*","*","*","*","*","*","*","*","*","*","*","*","*","*","*","*","*","*","*","*","*","*","*","*","*","*","*","*","*","*","*","#","\n">>

\* config_text, source lines 44-53
config_text_quality ==
    <<
      "#"," ","T","h","e"," ","Q","U","A","L","I","T","Y"," ","i","s"," ","t","h","e"," ","q","u","a","l","i","t","y"," ","o","f"," ","t","h","e"," ","s","o","n","g"," ","i","n"," ","k","b","p","s","\n",
      "#"," ","B","y"," ","d","e","f","a","u","l","t"," ","i","t"," ","i","s"," ","s","e","t"," ","t","o"," ","3","2","0","k","b","p","s","\n",
      "#"," ","I","n"," ","c","a","s","e"," ","y","o","u"," ","w","a","n","t"," ","t","o"," ","c","h","a","n","g","e"," ","i","t"," ","t","o"," ","s","o","m","e","t","h","i","n","g"," ","e","l","s","e",",","\n",
      "#"," ","U","n","c","o","m","m","e","n","t"," ","t","h","e"," ","f","o","l","l","o","w","i","n","g"," ","l","i","n","e"," ","a","n","d"," ","c","h","a","n","g","e"," ","i","t","\n",
      "#","\n",
      "#"," ","S","u","p","p","o","r","t","e","d"," ","v","a","l","u","e","s"," ","a","r","e"," ","3","2","0"," ","a","n","d"," ","1","9","2","\n",
      "#","\n",
      "#","Q","U","A","L","I","T","Y"," ","="," ","\"","3","2","0","\"","\n",
      "#","\n",
      "#","*","*","*","*","*","*","*","*","*","*","*","*","*","*","*","*","*","*","*","*","*","*","*","*","*","*","*","*","*","*","*","*","*","*","*","*","*","*","*","*","*","#","\n">>

\* config_text, source lines 54-61
config_text_providers ==
    <<
      "#"," ","T","h","e"," ","M","E","T","A","D","A","T","A","_","P","R","O","V","I","D","E","R","S"," ","v","a","l","u","e"," ","i","s"," ","a"," ","c","o","m","m","a"," ","s","e","p","a","r","a","t","e","d","\n",
      "#"," ","v","a","l","u","e","s"," ","t","h","a","t"," ","s","p","e","c","i","f","i","e","s"," ","w","i","c","h"," ","A","P","I"," ","p","r","o","v","i","d","e","r","s"," ","t","o"," ","u","s","e"," ","f","o","r"," ","g","e","t","t","i","n","g","\n",
      "#"," ","t","h","e"," ","s","o","n","g"," ","m","e","t","a","d","a","t","a","."," ","A","v","a","i","l","a","b","l","e"," ","v","a","l","u","e","s"," ","r","i","g","h","t"," ","n","o","w"," ","a","r","e",":","\n",
      "#"," ","i","t","u","n","e","s",","," ","g","a","a","n","a",","," ","d","e","e","z","e","r",","," ","l","a","s","t","f","m","."," ","s","a","a","v","n",".","\n",
      "#"," ","P","l","e","a","s","e"," ","c","h","e","c","k"," ","t","h","e"," ","g","i","t","h","u","b"," ","p","a","g","e"," ","o","f"," ","y","t","m","d","l"," ","f","o","r"," ","m","o","r","e"," ","i","n","f","o","r","m","a","t","i","o","n",".","\n",
      "#","\n",
      "#","M","E","T","A","D","A","T","A","_","P","R","O","V","I","D","E","R","S"," ","="," ","\"","i","t","u","n","e","s",","," ","g","a","a","n","a","\"","\n",
      "#","*","*","*","*","*","*","*","*","*","*","*","*","*","*","*","*","*","*","*","*","*","*","*","*","*","*","*","*","*","*","*","*","*","*","*","*","*","*","*","*","*","#","\n">>

\* config_text, source lines 62-65
config_text_format ==
    <<
      "#"," ","T","h","e"," ","D","E","F","A","U","L","T","_","F","O","R","M","A","T"," ","d","e","n","o","t","e","s"," ","w","h","a","t"," ","t","o"," ","u","s","e"," ","a","s"," ","d","e","f","a","u","l","t"," ","b","e","t","w","e","e","n","\n",
      "#"," ","m","4","a"," ","a","n","d"," ","m","p","3","\n",
      "#","D","E","F","A","U","L","T","_","F","O","R","M","A","T"," ","="," ","\"","m","p","3","\"","\n",
      "#">>

config_text ==
    config_text_header \o config_text_song_dir \o config_text_advanced \o
    config_text_quality \o config_text_providers \o config_text_format

-----------------------------------------------------------------------------
(* class DEFAULTS *)

XDG_MUSIC_DIR == <<"X","D","G","_","M","U","S","I","C","_","D","I","R">>

\* The match of r'\nXDG_MUSIC_DIR.*?\n' that starts at position i of data.
xdg_match(data, i) ==
    SubSeq(data, i, find_from(data, NL, i + 1 + Len(XDG_MUSIC_DIR)))

\* The first of the matches, which start at the positions starts.
first_match(data, starts) ==
    IF starts = {} THEN <<>> ELSE xdg_match(data, Min(starts))

\* re.findall(r'\nXDG_MUSIC_DIR.*?\n', data): the first match, <<>> when none.
xdg_findall(data) ==
    first_match(data,
        {i \in 1..Len(data) :
            /\ data[i] = NL
            /\ startswith(data, XDG_MUSIC_DIR, i + 1)
            /\ find_from(data, NL, i + 1 + Len(XDG_MUSIC_DIR)) # 0})

\* The positions of s at which r'\n|XDG_MUSIC_DIR|=|"' matches.
xdg_matched(s) ==
    {i \in 1..Len(s) :
        \/ s[i] \in {NL, "=", "\""}
        \/ \E j \in (i - Len(XDG_MUSIC_DIR) + 1)..i :
              j >= 1 /\ startswith(s, XDG_MUSIC_DIR, j)}

\* s without the characters at the positions gone.
without(s, gone) ==
    LET kept == SelectSeq([i \in 1..Len(s) |-> i], LAMBDA i : i \notin gone)
    IN  [k \in 1..Len(kept) |-> s[kept[k]]]

\* re.sub(r'\n|XDG_MUSIC_DIR|=|"', '', s)
xdg_sub(s) == without(s, xdg_matched(s))

\* _get_xdg_dir, lines 123-130, on the text of user-dirs.dirs.
xdg_path(path) ==
    IF path = <<>> THEN None ELSE Str(expandvars(xdg_sub(path)))

\* _get_xdg_dir, lines 123-130, once user-dirs.dirs was opened and read as r.
xdg_read(r) ==
    IF r.outcome # "returned" THEN [outcome |-> r.outcome, ret |-> None]
    ELSE [outcome |-> "returned", ret |-> xdg_path(xdg_findall(r.data))]

_get_xdg_dir(f) ==
    IF ~exists(f, expanduser(<<"~","/",".","c","o","n","f","i","g","/","u","s","e","r","-","d","i","r","s",".","d","i","r","s">>))
    THEN [outcome |-> "returned", ret |-> None]
    ELSE xdg_read(read(f, expanduser(<<"~","/",".","c","o","n","f","i","g","/","u","s","e","r","-","d","i","r","s",".","d","i","r","s">>)))

\* _get_music_dir, lines 111-114, with music_dir as lines 106-109 left it.
music_dir_or_cwd(f, music_dir) ==
    IF ~exists(f, music_dir) THEN getcwd ELSE music_dir

\* _get_music_dir, lines 108-109, with what _get_xdg_dir returned.
home_music_or(xdg) ==
    IF xdg = None THEN join(expanduser(<<"~">>), <<"M","u","s","i","c">>) ELSE xdg.v

\* _get_music_dir, lines 106-114, once _get_xdg_dir has ended as x.
music_dir_after(f, x) ==
    IF x.outcome # "returned" THEN [outcome |-> x.outcome, ret |-> None]
    ELSE [outcome |-> "returned", ret |-> Str(music_dir_or_cwd(f, home_music_or(x.ret)))]

_get_music_dir(f) == music_dir_after(f, _get_xdg_dir(f))

\* self.CONFIG_PATH, line 88.
CONFIG_PATH == join(xdg_config_home, <<"y","t","m","d","l">>)

\* DEFAULTS.__init__, lines 74-99, once _get_music_dir has ended as m: the
\* object, or the exception that _get_music_dir raised (outcome).
defaults(m) ==
    [outcome |-> m.outcome,
     HOME_DIR |-> expanduser(<<"~">>),
     SONG_DIR |-> m.ret.v,
     SONG_TEMP_DIR |-> join(m.ret.v, <<"y","t","m","d","l">>),
     SONG_QUALITY |-> <<"3","2","0">>,
     CONFIG_PATH |-> CONFIG_PATH,
     METADATA_PROVIDERS |-> <<<<"i","t","u","n","e","s">>, <<"g","a","a","n","a">>, <<"s","a","a","v","n">>>>,
     AVAILABLE_METADATA_PROVIDERS |->
         <<<<"i","t","u","n","e","s">>, <<"g","a","a","n","a">>, <<"s","a","a","v","n">>>> \o <<<<"d","e","e","z","e","r">>, <<"l","a","s","t","f","m">>>>,
     VALID_FORMATS |-> <<<<"m","p","3">>, <<"m","4","a">>, <<"o","p","u","s">>>>,
     DEFAULT_FORMAT |-> <<"m","p","3">>]

DEFAULTS(f) == defaults(_get_music_dir(f))

\* "x in l" for a Python list l.
inlist(x, l) == \E i \in 1..Len(l) : l[i] = x

-----------------------------------------------------------------------------
(* The module's functions.  Each returns the filesystem it leaves, how it  *)
(* ended ("returned" or the exception it raised) and the value returned.   *)

SONG_DIR == <<"S","O","N","G","_","D","I","R">>
QUALITY == <<"Q","U","A","L","I","T","Y">>
DEFAULT_FORMAT == <<"D","E","F","A","U","L","T","_","F","O","R","M","A","T">>
METADATA_PROVIDERS == <<"M","E","T","A","D","A","T","A","_","P","R","O","V","I","D","E","R","S">>
Keys == {SONG_DIR, QUALITY, DEFAULT_FORMAT, METADATA_PROVIDERS}

\* config_path, line 136, with d the object DEFAULTS() gave.
config_path(d) == join(d.CONFIG_PATH, <<"c","o","n","f","i","g">>)

\* make_config, lines 136-144, with d the object DEFAULTS() gives.
make_config_dir_with(f, d) ==
    IF d.outcome # "returned" THEN [fs |-> f, outcome |-> d.outcome]
    ELSE IF ~isdir(f, d.CONFIG_PATH) THEN makedirs(f, d.CONFIG_PATH, TRUE)
    ELSE IF isfile(f, config_path(d)) THEN remove(f, config_path(d))
    ELSE [fs |-> f, outcome |-> "returned"]

\* make_config, lines 136-144: make the config directory, or remove the old file.
make_config_dir(f) == make_config_dir_with(f, DEFAULTS(f))

\* make_config, lines 146-149, with d the object DEFAULTS() gives.
make_temp_dir_with(f, d) ==
    IF d.outcome # "returned" THEN [fs |-> f, outcome |-> d.outcome]
    ELSE IF ~isdir(f, d.SONG_TEMP_DIR) THEN makedirs(f, d.SONG_TEMP_DIR, FALSE)
    ELSE [fs |-> f, outcome |-> "returned"]

\* make_config, lines 146-149: make the temp directory under the music directory.
make_temp_dir(f) == make_temp_dir_with(f, DEFAULTS(f))

\* make_config, lines 151-153: open(config_path, 'w') raises IsADirectoryError
\* when config_path is a directory; else the template replaces the file.
write_config(f) == write(f, join(CONFIG_PATH, <<"c","o","n","f","i","g">>), config_text)

\* make_config, lines 146-149 and 152-153, the steps before having ended as s:
\* an exception ends the function.
then_make_temp_dir(s) ==
    IF s.outcome # "returned" THEN s ELSE make_temp_dir(s.fs)

then_write_config(s) ==
    IF s.outcome # "returned" THEN s ELSE write_config(s.fs)

\* A function that returns nothing, its steps having ended as s.
returns_none(s) == [fs |-> s.fs, outcome |-> s.outcome, ret |-> None]

\* Mutant of make_config: a config file that is already there is kept.
make_config_keep(f) ==
    IF DEFAULTS(f).outcome = "returned" /\ isfile(f, config_path(DEFAULTS(f)))
    THEN [fs |-> f, outcome |-> "returned", ret |-> None]
    ELSE returns_none(then_write_config(then_make_temp_dir(make_config_dir(f))))

make_config(f) ==
    returns_none(then_write_config(then_make_temp_dir(make_config_dir(f))))

\* checkConfig, lines 168-170: what it returns once make_config has ended as m.
after_make_config(m) ==
    [fs |-> m.fs, outcome |-> m.outcome,
     ret |-> IF m.outcome = "returned" THEN Bool(TRUE) ELSE None,
     repaired |-> TRUE]

\* Mutant of checkConfig: a missing config directory is created as well.
checkConfig_create(f) ==
    IF DEFAULTS(f).outcome # "returned"
    THEN [fs |-> f, outcome |-> DEFAULTS(f).outcome, ret |-> None, repaired |-> FALSE]
    ELSE IF ~isdir(f, DEFAULTS(f).CONFIG_PATH)
    THEN [fs |-> make_config(f).fs, outcome |-> make_config(f).outcome,
          ret |-> Bool(FALSE), repaired |-> TRUE]
    ELSE IF <<"c","o","n","f","i","g">> \notin listdir(f, DEFAULTS(f).CONFIG_PATH)
    THEN after_make_config(make_config(f))
    ELSE [fs |-> f, outcome |-> "returned", ret |-> Bool(TRUE), repaired |-> FALSE]

\* Mutant of checkConfig: the template is rewritten on every call.
checkConfig_always(f) ==
    IF DEFAULTS(f).outcome # "returned"
    THEN [fs |-> f, outcome |-> DEFAULTS(f).outcome, ret |-> None, repaired |-> FALSE]
    ELSE IF ~isdir(f, DEFAULTS(f).CONFIG_PATH)
    THEN [fs |-> f, outcome |-> "returned", ret |-> Bool(FALSE), repaired |-> FALSE]
    ELSE after_make_config(make_config(f))

\* checkConfig, with d the object DEFAULTS() gives.
checkConfig_with(f, d) ==
    IF d.outcome # "returned"
    THEN [fs |-> f, outcome |-> d.outcome, ret |-> None, repaired |-> FALSE]
    ELSE IF ~isdir(f, d.CONFIG_PATH)
    THEN [fs |-> f, outcome |-> "returned", ret |-> Bool(FALSE), repaired |-> FALSE]
    ELSE IF <<"c","o","n","f","i","g">> \notin listdir(f, d.CONFIG_PATH)
    THEN after_make_config(make_config(f))
    ELSE [fs |-> f, outcome |-> "returned", ret |-> Bool(TRUE), repaired |-> FALSE]

checkConfig(f) == checkConfig_with(f, DEFAULTS(f))

\* Mutant of check_config_setup: the config file is not looked for.
check_config_setup_dir_only(f) ==
    IF DEFAULTS(f).outcome # "returned"
    THEN [fs |-> f, outcome |-> DEFAULTS(f).outcome, ret |-> None]
    ELSE [fs |-> f, outcome |-> "returned",
          ret |-> Bool(isdir(f, DEFAULTS(f).CONFIG_PATH))]

\* check_config_setup, with d the object DEFAULTS() gives at line 188.
check_config_setup_with(f, d) ==
    IF d.outcome # "returned" THEN [fs |-> f, outcome |-> d.outcome, ret |-> None]
    ELSE IF ~isdir(f, d.CONFIG_PATH)
    THEN [fs |-> f, outcome |-> "returned", ret |-> Bool(FALSE)]
    ELSE IF ~isfile(f, join(d.CONFIG_PATH, <<"c","o","n","f","i","g">>))
    THEN [fs |-> f, outcome |-> "returned", ret |-> Bool(FALSE)]
    ELSE [fs |-> f, outcome |-> "returned", ret |-> Bool(TRUE)]

check_config_setup(f) == check_config_setup_with(f, DEFAULTS(f))

\* A function that ends by returning v.
returned(v) == [outcome |-> "returned", ret |-> v]

\* A function that ends with DEFAULTS() raising, or by returning v, which it
\* made from the object d.
of_defaults(d, v) ==
    IF d.outcome # "returned" THEN [outcome |-> d.outcome, ret |-> None]
    ELSE returned(v)

\* checkValidity, lines 205-211: the text before the first '$', at pos (0: none).
song_dir_base(value, pos) ==
    IF pos # 0 THEN SubSeq(value, 1, pos - 1) ELSE value

\* checkValidity, lines 222-233, with possM as DEFAULTS() gave it.
providers_valid(value, possM) ==
    IF value = <<>> THEN Bool(FALSE)
    ELSE Bool(\E i \in 1..Len(split(replace(value, " "), ",")) :
                 inlist(split(replace(value, " "), ",")[i], possM))

checkValidity(f, keyword, value) ==
    IF keyword = SONG_DIR
    THEN returned(Bool(isdir(f, song_dir_base(value, find(value, "$")))))
    ELSE IF keyword = QUALITY
    THEN returned(Bool(inlist(value, <<<<"3","2","0">>, <<"1","9","2">>>>)))
    ELSE IF keyword = DEFAULT_FORMAT
    THEN LET d == DEFAULTS(f)
         IN  of_defaults(d, Bool(inlist(value, d.VALID_FORMATS)))
    ELSE IF keyword = METADATA_PROVIDERS
    THEN LET d == DEFAULTS(f)
         IN  of_defaults(d, providers_valid(value, d.AVAILABLE_METADATA_PROVIDERS))
    ELSE returned(None)

retDefault(f, keyword) ==
    IF keyword = QUALITY
    THEN LET d == DEFAULTS(f) IN of_defaults(d, Str(d.SONG_QUALITY))
    ELSE IF keyword = DEFAULT_FORMAT
    THEN LET d == DEFAULTS(f) IN of_defaults(d, Str(d.DEFAULT_FORMAT))
    ELSE IF keyword = SONG_DIR
    THEN LET d == DEFAULTS(f) IN of_defaults(d, Str(d.SONG_DIR))
    ELSE IF keyword = METADATA_PROVIDERS
    THEN LET d == DEFAULTS(f) IN of_defaults(d, List(d.METADATA_PROVIDERS))
    ELSE returned(None)

\* READ_STREAM.readline() with the stream at position pos (1-based), where nl
\* is the position of the next newline (0: there is none): the text up to and
\* including the newline.
line_until(data, pos, nl) ==
    IF nl = 0 THEN SubSeq(data, pos, Len(data)) ELSE SubSeq(data, pos, nl)

\* READ_STREAM.readline(); <<>> at the end of the file.
readline(data, pos) ==
    IF pos > Len(data) THEN <<>> ELSE line_until(data, pos, find_from(data, NL, pos))

\* The positions at which the lines of a text start.
LineStarts(data) ==
    {i \in 1..Len(data) : i = 1 \/ data[i - 1] = NL}

\* Mutant of is_candidate: comment lines are not skipped.
is_candidate_any(keyword, line) == contains(keyword, line)

\* The test of line 264: the line is not a comment and mentions the keyword.
is_candidate(keyword, line) == line[1] # "#" /\ contains(keyword, line)

\* Lines 267-274: the text after the '=' at index_equal, less the space that
\* follows it and the quotes.
unquoted(line, index_equal) ==
    replace(replace(IF line[index_equal + 1] = " "
                    THEN SubSeq(line, index_equal + 2, Len(line))
                    ELSE SubSeq(line, index_equal + 1, Len(line)),
                    "\""), "'")

\* Lines 276-277: the newline is taken out when the line has one.
without_newline(line, value) ==
    IF find(line, NL) # 0 THEN replace(value, NL) ELSE value

\* Mutant of newDEFAULT: the value is cut at '$', as checkValidity cuts it.
newDEFAULT_truncated(line) ==
    LET value == without_newline(line, unquoted(line, find(line, "=")))
    IN  IF find(value, "$") # 0
        THEN SubSeq(value, 1, find(value, "$") - 1)
        ELSE value

\* Lines 266-277 on a line that holds a character after its first '='.
newDEFAULT(line) == without_newline(line, unquoted(line, find(line, "=")))

\* Mutant of on_value: the value is returned without being validated.
on_value_unchecked(f, keyword, value) == returned(Str(value))

\* Lines 279-285, once checkValidity has ended as valid.
on_validity(f, keyword, value, valid) ==
    IF valid.outcome # "returned" THEN [outcome |-> valid.outcome, ret |-> None]
    ELSE IF truthy(valid.ret) THEN returned(Str(value))
    ELSE retDefault(f, keyword)

\* Lines 279-285: the value read from the line is returned when it is valid,
\* the default when it is not.
on_value(f, keyword, value) ==
    on_validity(f, keyword, value, checkValidity(f, keyword, value))

\* Lines 265-285: what GIVE_DEFAULT does with the candidate line, whose first
\* '=' is at index_equal (0 when it has none).
\* line.index('=') raises ValueError when the line has no '=';
\* line[index_equal + 1] raises IndexError when '=' is the last character.
at_equal(f, keyword, line, index_equal) ==
    IF index_equal = 0
    THEN [outcome |-> "ValueError", ret |-> None]
    ELSE IF index_equal + 1 > Len(line)
    THEN [outcome |-> "IndexError", ret |-> None]
    ELSE on_value(f, keyword, newDEFAULT(line))

on_candidate(f, keyword, line) == at_equal(f, keyword, line, find(line, "="))

\* Where the first line of data starts that is_candidate accepts.
first_candidate(keyword, data) ==
    CHOOSE i \in LineStarts(data) :
        /\ is_candidate(keyword, readline(data, i))
        /\ \A k \in LineStarts(data) :
              k < i => ~is_candidate(keyword, readline(data, k))

\* The "while True" loop of lines 260-285: lines are read until one of them is
\* a candidate or the file ends.
read_loop(f, keyword, data) ==
    IF \E i \in LineStarts(data) : is_candidate(keyword, readline(data, i))
    THEN on_candidate(f, keyword, readline(data, first_candidate(keyword, data)))
    ELSE retDefault(f, keyword)

\* GIVE_DEFAULT, lines 258-285, once the config file was opened and read as r.
read_opened(f, keyword, r) ==
    IF r.outcome # "returned" THEN [outcome |-> r.outcome, ret |-> None]
    ELSE read_loop(f, keyword, r.data)

\* GIVE_DEFAULT, lines 258-285: open the config file and read it.
read_config_with(f, keyword, d) ==
    IF d.outcome # "returned" THEN [outcome |-> d.outcome, ret |-> None]
    ELSE read_opened(f, keyword, read(f, config_path(d)))

read_config(f, keyword) == read_config_with(f, keyword, DEFAULTS(f))

\* GIVE_DEFAULT, lines 254-285, once checkConfig has ended as c.
after_checkConfig(c, keyword) ==
    IF c.outcome # "returned"
    THEN [outcome |-> c.outcome, ret |-> None]
    ELSE IF ~truthy(c.ret)
    THEN retDefault(c.fs, keyword)
    ELSE read_config(c.fs, keyword)

\* The result of a call together with what checkConfig did to the filesystem.
with_effect(c, r) ==
    [fs |-> c.fs, outcome |-> r.outcome, ret |-> r.ret, repaired |-> c.repaired]

give_default(c, keyword) == with_effect(c, after_checkConfig(c, keyword))

GIVE_DEFAULT(f, keyword) == give_default(checkConfig(f), keyword)

-----------------------------------------------------------------------------
(* The states the program starts in: what is on disk before it runs *)

\* Lines a user may have put in the config file (without the newline): among
\* them one that ends in "\r", which the newline makes a line ended by "\r\n",
\* and one with a lone "\r" in it, which is two lines to a reader.
UserLines ==
    {<<"#","Q","U","A","L","I","T","Y"," ","="," ","\"","1","9","2","\"">>,
     <<" ","#","Q","U","A","L","I","T","Y"," ","="," ","\"","1","9","2","\"">>,
     <<"Q","U","A","L","I","T","Y"," ","="," ","\"","1","9","2","\"">>,
     <<"Q","U","A","L","I","T","Y"," ","="," ","\"","2","5","6","\"">>,
     <<"Q","U","A","L","I","T","Y">>,
     <<"Q","U","A","L","I","T","Y","=">>,
     <<"S","O","N","G","_","D","I","R"," ","="," ","\"","/","h","/","M","u","s","i","c","/","$","A","r","t","i","s","t","\"">>,
     <<"M","E","T","A","D","A","T","A","_","P","R","O","V","I","D","E","R","S"," ","="," ","\"","i","t","u","n","e","s",","," ","m","a","d","e","_","u","p","\"">>,
     <<"D","E","F","A","U","L","T","_","F","O","R","M","A","T","=","'","m","4","a","'","\r">>,
     <<"#","x","\r","Q","U","A","L","I","T","Y"," ","="," ","\"","1","9","2","\"">>}

\* The texts of exactly n newline-terminated lines.
RECURSIVE Texts(_)
Texts(n) ==
    IF n = 0 THEN {<<>>}
    ELSE {l \o <<NL>> \o t : l \in UserLines, t \in Texts(n - 1)}

\* i is where a line of the bytes data ends: at "\n", or at a "\r" that no
\* "\n" follows.
LineEnd(data, i) ==
    \/ data[i] = NL
    \/ data[i] = CR /\ (i = Len(data) \/ data[i + 1] # NL)

\* Where the lines of the bytes data start, and the line that starts at i with
\* the bytes that end it.
FileLineStarts(data) ==
    {i \in 1..Len(data) : i = 1 \/ LineEnd(data, i - 1)}

FileLine(data, i) ==
    SubSeq(data, i, Min({j \in i..Len(data) : LineEnd(data, j)} \cup {Len(data)}))

\* The config files of at most MaxLines lines; the last line may lack its newline.
ConfigFiles ==
    LET full == UNION {Texts(n) : n \in 0..MaxLines}
    IN  {t \in full \cup {SubSeq(t, 1, Len(t) - 1) : t \in full \ {<<>>}} :
            Cardinality(FileLineStarts(t)) <= MaxLines}

user_dirs_path == expanduser(<<"~","/",".","c","o","n","f","i","g","/","u","s","e","r","-","d","i","r","s",".","d","i","r","s">>)

\* The directories every starting state has.
BaseDirs == {HOME_DIR, xdg_config_home, getcwd}

\* What is on disk apart from the config directory.
\* ~/Music exists, there is no user-dirs.dirs, the temp directory exists.
HomeMusic ==
    [dirs |-> BaseDirs \cup {<<"/","h","/","M","u","s","i","c">>, <<"/","h","/","M","u","s","i","c","/","y","t","m","d","l">>}, files |-> <<>>]

\* There is neither ~/Music nor user-dirs.dirs.
Bare == [dirs |-> BaseDirs, files |-> <<>>]

\* user-dirs.dirs names $HOME/m as the music directory, which exists.
XdgMusic ==
    [dirs |-> BaseDirs \cup {<<"/","h","/","m">>},
     files |-> [x \in {user_dirs_path} |-> <<"#"," ","d","i","r","s","\n","X","D","G","_","M","U","S","I","C","_","D","I","R","=","\"","$","H","O","M","E","/","m","\"","\n">>]]

\* user-dirs.dirs names ${HOME}/m as the music directory, which exists.
XdgBraces ==
    [dirs |-> BaseDirs \cup {<<"/","h","/","m">>},
     files |-> [x \in {user_dirs_path} |-> <<"#"," ","d","i","r","s","\n","X","D","G","_","M","U","S","I","C","_","D","I","R","=","\"","$","{","H","O","M","E","}","/","m","\"","\n">>]]

\* user-dirs.dirs has no music entry and ~/Music does not exist.
NoMusic ==
    [dirs |-> BaseDirs,
     files |-> [x \in {user_dirs_path} |-> <<"#"," ","d","i","r","s","\n","X","D","G","_","D","E","S","K","T","O","P","_","D","I","R","=","\"","$","H","O","M","E","/","d","\"","\n">>]]

\* user-dirs.dirs names $HOME/m, which does not exist, and ~/Music exists.
XdgMissing ==
    [dirs |-> BaseDirs \cup {<<"/","h","/","M","u","s","i","c">>},
     files |-> [x \in {user_dirs_path} |-> <<"#"," ","d","i","r","s","\n","X","D","G","_","M","U","S","I","C","_","D","I","R","=","\"","$","H","O","M","E","/","m","\"","\n">>]]

\* user-dirs.dirs names $HOME/m, which exists, in lines that end in "\r\n".
XdgCrlf ==
    [dirs |-> BaseDirs \cup {<<"/","h","/","m">>},
     files |-> [x \in {user_dirs_path} |-> <<"#"," ","d","i","r","s","\r","\n","X","D","G","_","M","U","S","I","C","_","D","I","R","=","\"","$","H","O","M","E","/","m","\"","\r","\n">>]]

Environments == {HomeMusic, Bare, XdgMusic, XdgBraces, XdgCrlf, NoMusic, XdgMissing}

\* The path of the config file.
config_file == join(CONFIG_PATH, <<"c","o","n","f","i","g">>)

\* The starting states: an environment in which the config directory is absent,
\* empty or holds a directory named config; and, with and without ~/Music, a
\* config directory that holds a config file.  In all of them the paths the
\* program makes directories at are free or hold directories, and
\* user-dirs.dirs is a regular file when it exists, so that os.makedirs and
\* DEFAULTS() do not raise.
Filesystems ==
    LET cdir == {makedirs(f, CONFIG_PATH, TRUE).fs : f \in Environments}
    IN  Environments \cup cdir
        \cup {makedirs(f, config_file, TRUE).fs : f \in cdir}
        \cup {write(makedirs(f, CONFIG_PATH, TRUE).fs, config_file, d).fs :
                 f \in {HomeMusic, Bare}, d \in ConfigFiles}

-----------------------------------------------------------------------------
(* The state machine: calls of the module's functions, and the user editing *)
(* the config file between them.  last records the latest step: what was    *)
(* called, with which argument, how it ended, and what was at the config    *)
(* path before.                                                             *)

\* What is at the config path: no config directory, no entry named config,
\* a directory, the template, or a file the user has written.
config_state(f) ==
    IF CONFIG_PATH \notin f.dirs THEN "nodir"
    ELSE IF config_file \in f.dirs THEN "dir"
    ELSE IF config_file \notin DOMAIN f.files THEN "absent"
    ELSE IF f.files[config_file] = config_text THEN "template"
    ELSE "edited"

\* The record of a step: op, with argument key or line, ended as r; before it
\* the config path was as config_state(fs) says.
Done(op, key, line, r) ==
    [op |-> op, key |-> key, line |-> line, outcome |-> r.outcome,
     ret |-> r.ret, repaired |-> r.repaired, before |-> config_state(fs)]

\* A function that does not call make_config through checkConfig.
plain(r) == [fs |-> r.fs, outcome |-> r.outcome, ret |-> r.ret, repaired |-> FALSE]

\* The user leaves the filesystem as f.
user(f) == [fs |-> f, outcome |-> "returned", ret |-> None, repaired |-> FALSE]

Init ==
    /\ fs \in Filesystems
    /\ last = Done("none", <<>>, <<>>, user(fs))

CallGiveDefault ==
    \E keyword \in Keys :
        \E r \in {GIVE_DEFAULT(fs, keyword)} :
            /\ fs' = r.fs
            /\ last' = Done("GIVE_DEFAULT", keyword, <<>>, r)

CallCheckConfig ==
    \E r \in {checkConfig(fs)} :
        /\ fs' = r.fs
        /\ last' = Done("checkConfig", <<>>, <<>>, r)

CallMakeConfig ==
    \E r \in {make_config(fs)} :
        /\ fs' = r.fs
        /\ last' = Done("make_config", <<>>, <<>>, plain(r))

CallCheckConfigSetup ==
    \E r \in {check_config_setup(fs)} :
        /\ fs' = r.fs
        /\ last' = Done("check_config_setup", <<>>, <<>>, plain(r))

\* The user deletes the config file.
UserDeletesConfig ==
    /\ config_file \in DOMAIN fs.files
    /\ fs' = remove(fs, config_file).fs
    /\ last' = Done("delete", <<>>, <<>>, user(fs'))

\* The lines whose first non-blank character is '#'.
HashLine(line) ==
    /\ find(replace(line, " "), "#") = 1
    /\ FileLineStarts(line) = {1}

\* data with line put in at position i.
insert(data, i, line) == SubSeq(data, 1, i - 1) \o line \o SubSeq(data, i, Len(data))

\* data without the line that starts at position i.
delete(data, i, line) == SubSeq(data, 1, i - 1) \o SubSeq(data, i + Len(line), Len(data))

\* Where a newline-terminated line can be added: before a line of the file,
\* or after its last line when that one ends in a newline.
Gaps(data) ==
    FileLineStarts(data)
        \cup (IF data = <<>> \/ LineEnd(data, Len(data)) THEN {Len(data) + 1} ELSE {})

\* The user adds a line whose first non-blank character is '#' to a file of
\* fewer than MaxLines lines.
UserAddsHashLine ==
    /\ config_file \in DOMAIN fs.files
    /\ \E data \in {fs.files[config_file]} :
          /\ Cardinality(FileLineStarts(data)) < MaxLines
          /\ \E line \in {l \o <<NL>> : l \in {u \in UserLines : HashLine(u)}},
                i \in Gaps(data) :
                /\ fs' = [fs EXCEPT !.files[config_file] = insert(data, i, line)]
                /\ last' = Done("add", <<>>, line, user(fs'))

\* The user removes a line whose first non-blank character is '#' from a file
\* of at most MaxLines lines.
UserRemovesHashLine ==
    /\ config_file \in DOMAIN fs.files
    /\ \E data \in {fs.files[config_file]} :
          /\ Cardinality(FileLineStarts(data)) <= MaxLines
          /\ \E i \in FileLineStarts(data) :
                \E line \in {FileLine(data, i)} :
                    /\ HashLine(line)
                    /\ fs' = [fs EXCEPT !.files[config_file] = delete(data, i, line)]
                    /\ last' = Done("remove", <<>>, line, user(fs'))

Next ==
    \/ CallGiveDefault
    \/ CallCheckConfig
    \/ CallMakeConfig
    \/ CallCheckConfigSetup
    \/ UserDeletesConfig
    \/ UserAddsHashLine
    \/ UserRemovesHashLine

Spec == Init /\ [][Next]_vars

-----------------------------------------------------------------------------
(* What the properties below are stated with *)

\* Two Python values are the same value.
Same(a, b) == a.t = b.t /\ a.v = b.v

\* Two calls ended the same way.
SameResult(a, b) == a.outcome = b.outcome /\ Same(a.ret, b.ret)

\* The directory the environment names as the music directory: $HOME/m where
\* user-dirs.dirs has an XDG_MUSIC_DIR entry (every such entry of Environments
\* names $HOME/m), ~/Music where it has none.
NamedMusicDir(f) ==
    IF isfile(f, user_dirs_path) /\ contains(XDG_MUSIC_DIR, read(f, user_dirs_path).data)
    THEN <<"/","h","/","m">>
    ELSE <<"/","h","/","M","u","s","i","c">>

\* The built-in default of a key, as documented: "320", "mp3", the three
\* built-in providers, and the music directory: the named directory when it
\* exists, the working directory when it does not.
BuiltIn(f, key) ==
    IF key = QUALITY THEN Str(<<"3","2","0">>)
    ELSE IF key = DEFAULT_FORMAT THEN Str(<<"m","p","3">>)
    ELSE IF key = METADATA_PROVIDERS THEN List(<<<<"i","t","u","n","e","s">>, <<"g","a","a","n","a">>, <<"s","a","a","v","n">>>>)
    ELSE IF isdir(f, NamedMusicDir(f)) THEN Str(NamedMusicDir(f))
    ELSE Str(getcwd)

\* Where the lines of data start that do not begin with '#' and contain key.
CandidateStarts(key, data) ==
    {i \in LineStarts(data) :
        data[i] # "#" /\ contains(key, readline(data, i))}

\* The first such line.
FirstCandidate(key, data) == readline(data, Min(CandidateStarts(key, data)))

\* The text after the first '=' of a line, less one leading space, every quote
\* character and the newline.
Cleaned(line) ==
    LET after == SubSeq(line, find(line, "=") + 1, Len(line))
        body == IF after # <<>> /\ Head(after) = " " THEN Tail(after) ELSE after
    IN  SelectSeq(body, LAMBDA c : c \notin {"\"", "'", NL})

\* GIVE_DEFAULT was the latest call and found a config file in place.
ResolvedFromFile ==
    /\ last.op = "GIVE_DEFAULT"
    /\ last.before \in {"template", "edited"}

\* The text GIVE_DEFAULT read from the config file it found (a file in place is
\* not rewritten).
FileRead == read(fs, config_file).data

\* GIVE_DEFAULT was the latest call and the file it read has a candidate line
\* for the key that holds an '='.
ResolvedFromAssignment ==
    /\ ResolvedFromFile
    /\ CandidateStarts(last.key, FileRead) # {}
    /\ find(FirstCandidate(last.key, FileRead), "=") # 0

\* The cleaned value of that line.
Assigned == Cleaned(FirstCandidate(last.key, FileRead))

\* checkValidity accepts the value for the key.
Valid(f, key, value) == truthy(checkValidity(f, key, value).ret)

\* No line of the template is an active assignment of a key.
TemplateAssignsNothing ==
    \A key \in Keys : CandidateStarts(key, config_text) = {}

-----------------------------------------------------------------------------
(* The claims *)

\* C1 as stated: GIVE_DEFAULT never raises; whatever is on disk, the call
\* returns a value.
C1_NoException ==
    last.op = "GIVE_DEFAULT" => last.outcome = "returned"

\* C2 as stated: when the config directory does not exist, GIVE_DEFAULT leaves
\* the directory and the template file behind and returns the built-in default.
C2_AbsentDirSynthesized ==
    (last.op = "GIVE_DEFAULT" /\ last.before = "nodir")
        => /\ last.outcome = "returned"
           /\ Same(last.ret, BuiltIn(fs, last.key))
           /\ config_state(fs) = "template"

\* C2: when the config directory does not exist, GIVE_DEFAULT returns the
\* built-in default of the key and leaves the filesystem as it was: neither
\* the directory nor the file is created.
C2_AbsentDirUntouched ==
    [][(last'.op = "GIVE_DEFAULT" /\ ~isdir(fs, CONFIG_PATH))
        => /\ fs' = fs
           /\ last'.outcome = "returned"
           /\ ~last'.repaired
           /\ Same(last'.ret, BuiltIn(fs, last'.key))]_vars

\* The call on a filesystem whose user-dirs.dirs has lines ended by "\r\n".
C2_Witness ==
    /\ last.op = "GIVE_DEFAULT"
    /\ last.before = "nodir"
    /\ config_state(fs) = "nodir"
    /\ last.key = SONG_DIR
    /\ fs = XdgCrlf
    /\ Same(last.ret, Str(<<"/","h","/","m">>))

\* C3: with no config file in place (no config directory, or a directory
\* without the file) GIVE_DEFAULT returns the built-in default of every key;
\* the file a repair writes is the template, and no line of the template is an
\* active assignment of any key.
C3_FreshInstallDefaults ==
    /\ TemplateAssignsNothing
    /\ (last.op = "GIVE_DEFAULT" /\ last.before \in {"nodir", "absent"})
          => /\ last.outcome = "returned"
             /\ Same(last.ret, BuiltIn(fs, last.key))
             /\ last.before = "absent"
                   => last.repaired /\ config_state(fs) = "template"

\* The call on a filesystem whose user-dirs.dirs has lines ended by "\r\n".
C3_Witness ==
    /\ last.op = "GIVE_DEFAULT"
    /\ last.before = "absent"
    /\ last.repaired
    /\ config_state(fs) = "template"
    /\ last.key = SONG_DIR
    /\ isfile(fs, user_dirs_path)
    /\ fs.files[user_dirs_path] = XdgCrlf.files[user_dirs_path]
    /\ Same(last.ret, Str(<<"/","h","/","m">>))

\* C4 as stated: the first line that is not a comment and contains the key
\* decides alone: the cleaned text after its '=' is returned when valid and the
\* built-in default when not; without such a line the built-in default is
\* returned.
C4_FirstCandidateDecides ==
    ResolvedFromFile
        => IF CandidateStarts(last.key, FileRead) = {}
           THEN last.outcome = "returned" /\ Same(last.ret, BuiltIn(fs, last.key))
           ELSE IF find(FirstCandidate(last.key, FileRead), "=") = 0
           THEN TRUE
           ELSE /\ last.outcome = "returned"
                /\ IF Valid(fs, last.key, Assigned)
                   THEN Same(last.ret, Str(Assigned))
                   ELSE Same(last.ret, BuiltIn(fs, last.key))

\* C5: GIVE_DEFAULT runs the repair only when the config directory exists and
\* has no entry named config, and then it runs it; a call that finds a config
\* file in place changes nothing on disk.
C5_RepairOnlyWhenHalfInitialized ==
    [][last'.op = "GIVE_DEFAULT"
        => /\ last'.repaired
                <=> (isdir(fs, CONFIG_PATH) /\ ~exists(fs, config_file))
           /\ isfile(fs, config_file) => fs' = fs]_vars

C5_Witness ==
    /\ last.op = "GIVE_DEFAULT"
    /\ last.before = "edited"
    /\ ~last.repaired
    /\ config_state(fs) = "edited"

\* C6: check_config_setup changes nothing on disk and returns True exactly
\* when the config directory and the config file both exist: True right after
\* a make_config that completed, False right after the file was deleted.
C6_SetupIsAPureTest ==
    [][last'.op = "check_config_setup"
        => /\ fs' = fs
           /\ last'.outcome = "returned"
           /\ Same(last'.ret, Bool(isdir(fs, CONFIG_PATH) /\ isfile(fs, config_file)))
           /\ (last.op = "make_config" /\ last.outcome = "returned")
                 => Same(last'.ret, Bool(TRUE))
           /\ last.op = "delete" => Same(last'.ret, Bool(FALSE))]_vars

C6_Witness ==
    /\ last.op = "check_config_setup"
    /\ last.before = "absent"
    /\ Same(last.ret, Bool(FALSE))
    /\ config_state(fs) = "absent"

\* C7 as stated: adding or removing a line whose first non-blank character is
\* '#' never changes how GIVE_DEFAULT ends, for any key.
C7_HashLinesIgnored ==
    [][last'.op \in {"add", "remove"}
        => \A key \in Keys :
              SameResult(GIVE_DEFAULT(fs', key), GIVE_DEFAULT(fs, key))]_vars

\* C7: adding or removing a line whose first character is '#' never changes
\* how GIVE_DEFAULT ends, for any key.
C7_CommentLinesIgnored ==
    [][(last'.op \in {"add", "remove"} /\ Head(last'.line) = "#")
        => \A key \in Keys :
              SameResult(GIVE_DEFAULT(fs', key), GIVE_DEFAULT(fs, key))]_vars

C7_Witness ==
    /\ last.op = "add"
    /\ Head(last.line) = "#"
    /\ contains(QUALITY, last.line)
    /\ Same(GIVE_DEFAULT(fs, QUALITY).ret, Str(<<"1","9","2">>))

\* C8: when the value of the first candidate line is valid, GIVE_DEFAULT
\* returns the cleaned text itself: a SONG_DIR value with a '$' part is valid
\* exactly when the text before the first '$' is an existing directory, and is
\* returned with the '$' part; a METADATA_PROVIDERS value is returned with the
\* names that are not known providers still in it.
C8_ValidValueUnmodified ==
    ResolvedFromAssignment
        => /\ Valid(fs, last.key, Assigned)
                => last.outcome = "returned" /\ Same(last.ret, Str(Assigned))
           /\ (last.key = SONG_DIR /\ find(Assigned, "$") # 0)
                => (Valid(fs, last.key, Assigned)
                      <=> isdir(fs, SubSeq(Assigned, 1, find(Assigned, "$") - 1)))

C8_Witness ==
    /\ ResolvedFromAssignment
    /\ last.key = SONG_DIR
    /\ find(Assigned, "$") > 1
    /\ last.ret.t = "str"
    /\ last.ret.v = Assigned

\* C9: a make_config that completes leaves the template at the config path,
\* whatever was there; a second make_config right after it changes nothing;
\* and it completes whenever the config path is not a directory.
C9_MakeConfigIdempotent ==
    [][last'.op = "make_config"
        => /\ ~isdir(fs, config_file) => last'.outcome = "returned"
           /\ last'.outcome = "returned"
                => /\ isdir(fs', CONFIG_PATH)
                   /\ isfile(fs', config_file)
                   /\ read(fs', config_file).data = config_text
           /\ (last.op = "make_config" /\ last.outcome = "returned")
                => fs' = fs]_vars

C9_Witness ==
    /\ last.op = "make_config"
    /\ last.before = "edited"
    /\ last.outcome = "returned"
    /\ config_state(fs) = "template"

\* C10: a value GIVE_DEFAULT returns is the built-in default of the key or
\* the cleaned value of the first candidate line of the config file, and that
\* only when checkValidity accepts it for the key: a value that fails
\* validation is never returned.
C10_ReturnsDefaultOrValid ==
    (last.op = "GIVE_DEFAULT" /\ last.outcome = "returned")
        => \/ Same(last.ret, BuiltIn(fs, last.key))
           \/ /\ ResolvedFromAssignment
              /\ Same(last.ret, Str(Assigned))
              /\ Valid(fs, last.key, Assigned)

C10_Witness ==
    /\ ResolvedFromAssignment
    /\ last.key = QUALITY
    /\ Assigned = <<"2","5","6">>
    /\ last.outcome = "returned"
    /\ Same(last.ret, Str(<<"3","2","0">>))

====
